---------------------------- MODULE Spec2Model ----------------------------
(***************************************************************************)
(* A model of the fingerprint tooling of cbasalt-scripts:                  *)
(*   - combine_hash.py: load_hashfile, match, match_and_join, join_hashes  *)
(*   - flv_hasher.py:   FlvReader (header, tag iteration, fingerprint log) *)
(*                                                                         *)
(* Python sequences are 0-based; TLA+ sequences are 1-based.  Operators    *)
(* that return Python indices (cut points, match offsets, file offsets)    *)
(* return the 0-based numbers the code returns.                            *)
(***************************************************************************)
EXTENDS Integers, Sequences, FiniteSets, TLC

VARIABLES
    \* ---- combine_hash.match, called on its own
    lead, follow, match_num,   \* the arguments of match
    mres,                      \* what match returned or raised
    \* ---- combine_hash.join_hashes
    hashes,                    \* the list of loaded segments
    jwindow,                   \* the window match uses inside the join
    jlead,                     \* the accumulator `lead` of join_hashes
    jidx,                      \* how many segments have been consumed
    jstate,                    \* "start", "loop", "returned", or the exception
    stdout,                    \* lines printed by match during the join
    \* ---- combine_hash.load_hashfile
    lines,                     \* the lines of the log file
    loaded,                    \* what load_hashfile returned or raised
    \* ---- flv_hasher.FlvReader
    fsrc,                      \* how the file was produced (header, tags, cut)
    fbytes,                    \* the bytes of the container file
    fpos,                      \* the file position (tell())
    rstate,                    \* "new", "iter", "done", or the exception
    hashlog,                   \* the three fingerprint logs written so far
    tags,                      \* the tags yielded by iter_tag so far
    warns,                     \* logger.warn records
    payload,                   \* the raw payload of a tag (FlvTag._data)
    nargs,                     \* the flags hls_fix and vheader_ignore
    norm1,                     \* FlvTag.data of the raw payload
    norm2,                     \* FlvTag.data of a tag whose payload is norm1
    files,                     \* sorted(sys.argv[1:])
    disk,                      \* the input files: whether they exist, their lines
    mpc,                       \* where main is, or the exception that left it
    v_hashes, a_hashes,        \* the loaded logs of the two groups
    v_hash, a_hash,            \* the joined logs of the two groups
    outfile,                   \* the combined output file
    moved                      \* the input files moved to split-hashes

matchVars == <<lead, follow, match_num, mres>>
joinVars  == <<hashes, jwindow, jlead, jidx, jstate, stdout>>
loadVars  == <<lines, loaded>>
flvVars   == <<fsrc, fbytes, fpos, rstate, hashlog, tags, warns>>
normVars  == <<payload, nargs, norm1, norm2>>
mainVars  == <<files, disk, mpc, v_hashes, a_hashes, v_hash, a_hash, outfile, moved>>
vars      == <<matchVars, joinVars, loadVars, flvVars, normVars, mainVars>>

-----------------------------------------------------------------------------
(* Bounds of the model *)

MaxLead   == 4      \* longest lead handed to match
MaxFollow == 3      \* longest follow handed to match
MaxWindow == 4      \* largest window (match_num) tried
MaxSegs   == 3      \* most segments handed to join_hashes
MaxSegLen == 2      \* longest segment handed to join_hashes
MaxLines  == 3      \* most lines in a log file
MaxTags   == 2      \* most tags in a container file
MaxData   == 2      \* largest tag payload, in bytes
MaxCut    == 6      \* most bytes missing from the end of a container file
MaxTrim   == 2      \* longest segment handed to match_and_join on its own
MaxFiles  == 4      \* most files named on the command line of combine_hash
MaxBlocks == 2      \* most filter blocks between the prefix and the body of a payload

Hashes  == {"h1", "h2", "h3"}             \* fingerprints, match on its own
JHashes == {"h1", "h2", "h3", "h4"}       \* fingerprints, join_hashes
Files   == {"f1", "f2"}                   \* source file names

-----------------------------------------------------------------------------
(* Python list primitives *)

Min2(x, y) == IF x < y THEN x ELSE y

\* Python's clamping of a slice bound i for a list of length n
PyBound(i, n) ==
    IF i < 0 THEN (IF n + i < 0 THEN 0 ELSE n + i)
    ELSE (IF i > n THEN n ELSE i)

\* s[i:j]
Slice(s, i, j) ==
    LET lo == PyBound(i, Len(s))
        hi == PyBound(j, Len(s))
    IN  IF hi <= lo THEN <<>> ELSE SubSeq(s, lo + 1, hi)

\* s[i:]
SliceFrom(s, i) == Slice(s, i, Len(s))

\* s[:j]
SliceTo(s, j) == Slice(s, 0, j)

\* all sequences over S of length lo..hi
SeqsOf(S, lo, hi) == UNION {[1..n -> S] : n \in lo..hi}

-----------------------------------------------------------------------------
(* Fingerprint records.  A record of the log is the tuple                  *)
(* (fingerprint, timecode, descriptor, offset, size, packet type, file);   *)
(* the model keeps the fingerprint (field 0), the offset (field 3, which   *)
(* stands for the fields that the tag at that offset determines), the      *)
(* packet type (field 5) and the source file name (the last field).        *)

Rec(md5, pos, ptype, fn) == [md5 |-> md5, pos |-> pos, ptype |-> ptype, fn |-> fn]

\* the records of one log file fn whose fingerprints are hs, all content records
Segment(hs, fn) == [i \in 1..Len(hs) |-> Rec(hs[i], i - 1, "NALU", fn)]

Md5s(recs) == [i \in 1..Len(recs) |-> recs[i].md5]

-----------------------------------------------------------------------------
(* difflib.SequenceMatcher(None, a, b).find_longest_match(0, len(a), 0,    *)
(* len(b)): the longest block a[i:i+k] == b[j:j+k], of those the one that  *)
(* starts earliest in a, of those the one that starts earliest in b.       *)
(* With no junk function, the only elements the search skips are the       *)
(* "popular" ones (autojunk: b has at least 200 elements and the element   *)
(* fills more than 1% + 1 of them); the block found is then extended over  *)
(* equal elements on both ends.  Returns 0-based <<i, j, k>>.              *)

CountIn(b, x) == Cardinality({j \in 1..Len(b) : b[j] = x})

Popular(b) ==
    IF Len(b) >= 200
    THEN {x \in {b[j] : j \in 1..Len(b)} : CountIn(b, x) > (Len(b) \div 100) + 1}
    ELSE {}

\* length of the block of matching, not popular elements that ends at a[i], b[j]
RECURSIVE RunLen(_, _, _, _, _)
RunLen(a, b, i, j, pop) ==
    IF i < 1 \/ j < 1 THEN 0
    ELSE IF a[i] = b[j] /\ b[j] \notin pop
         THEN 1 + RunLen(a, b, i - 1, j - 1, pop)
         ELSE 0

\* how far the block starting at 0-based (i, j) extends to the left
RECURSIVE ExtendLeft(_, _, _, _)
ExtendLeft(a, b, i, j) ==
    IF i > 0 /\ j > 0 /\ a[i] = b[j]
    THEN 1 + ExtendLeft(a, b, i - 1, j - 1)
    ELSE 0

\* how far the block ending before 0-based (i, j) extends to the right
RECURSIVE ExtendRight(_, _, _, _)
ExtendRight(a, b, i, j) ==
    IF i < Len(a) /\ j < Len(b) /\ a[i + 1] = b[j + 1]
    THEN 1 + ExtendRight(a, b, i + 1, j + 1)
    ELSE 0

FindLongestMatch(a, b) ==
    LET pop   == Popular(b)
        pairs == (1..Len(a)) \X (1..Len(b))
        len(p) == RunLen(a, b, p[1], p[2], pop)
        lens  == {len(p) : p \in pairs} \cup {0}
        best  == CHOOSE k \in lens : \A m \in lens : m <= k
        ends  == {p \in pairs : len(p) = best}
        iend  == CHOOSE i \in {p[1] : p \in ends} : \A p \in ends : i <= p[1]
        jend  == CHOOSE j \in {p[2] : p \in {q \in ends : q[1] = iend}} :
                     \A p \in {q \in ends : q[1] = iend} : j <= p[2]
        besti == IF best = 0 THEN 0 ELSE iend - best
        bestj == IF best = 0 THEN 0 ELSE jend - best
        left  == ExtendLeft(a, b, besti, bestj)
        right == ExtendRight(a, b, besti + best, bestj + best)
    IN  <<besti - left, bestj - left, best + left + right>>

-----------------------------------------------------------------------------
(* combine_hash.match *)

\* print('No overlap between', lead[-1][-1], follow[0][-1])
NoOverlapLine(ld, fl) ==
    [text |-> "No overlap between", leadfile |-> ld[Len(ld)].fn, followfile |-> fl[1].fn]

Returned(a_end, b_start, printed) ==
    [tag |-> "return", cut |-> <<a_end, b_start>>, printed |-> printed]

Raised(exc, printed) == [tag |-> exc, cut |-> <<>>, printed |-> printed]

\* variant: no overlap is declared without the line that names the files
NoOverlapSilent(ld, fl) ==
    IF ld = <<>> \/ fl = <<>>
    THEN Raised("IndexError", <<>>)
    ELSE Returned(Len(ld), 0, <<>>)

\* the three places where match declares that there is no overlap
NoOverlap(ld, fl) ==
    IF ld = <<>> \/ fl = <<>>
    THEN Raised("IndexError", <<>>)
    ELSE Returned(Len(ld), 0, <<NoOverlapLine(ld, fl)>>)

\* `b <= 1 and a+size == min(match_num, len(lead_hashes))`
Anchored(a, b, size, n, lenLH) == b <= 1 /\ a + size = Min2(n, lenLH)

\* `b == 0 and size == len(follow_hashes) < match_num`
FollowConsumed(b, size, n, lenFH) == b = 0 /\ size = lenFH /\ lenFH < n

\* `lead[a] != follow[b] and lead[a+size-1] != follow[b+size-1]`
EdgesDiffer(ld, fl, a, b, size) ==
    ld[a + 1] # fl[b + 1] /\ ld[a + size] # fl[b + size]

\* variant: a run that starts at the first position of lead's window counts
MatchFoundAnywhere(a, size) == size > 0

\* `size > 0 and a > 0`
MatchFound(a, size) == size > 0 /\ a > 0

Match(ld, fl, n) ==
    LET lead_hashes   == Md5s(SliceFrom(ld, -n))
        follow_hashes == Md5s(SliceTo(fl, n))
        m    == FindLongestMatch(lead_hashes, follow_hashes)
        a    == m[1]
        b    == m[2]
        size == m[3]
    IN  IF MatchFound(a, size)
        THEN IF Anchored(a, b, size, n, Len(lead_hashes))
             THEN Returned(Len(ld) + a - n, b, <<>>)
             ELSE IF FollowConsumed(b, size, n, Len(follow_hashes))
             THEN Returned(Len(ld), Len(follow_hashes), <<>>)
             ELSE IF size = 1
             THEN NoOverlap(ld, fl)
             ELSE IF EdgesDiffer(ld, fl, a, b, size)
             THEN NoOverlap(ld, fl)
             ELSE Raised("AssertionError",
                         <<[numbers |-> <<a, b, size, Len(lead_hashes), Len(follow_hashes)>>]>>
                         \o [i \in 1..size |-> [dumped |-> ld[a + i]]]
                         \o [i \in 1..size |-> [dumped |-> fl[b + i]]])
        ELSE NoOverlap(ld, fl)

\* lead[:a_end] + follow[b_start:]
Joined(ld, fl, cut) == SliceTo(ld, cut[1]) \o SliceFrom(fl, cut[2])

-----------------------------------------------------------------------------
(* match called on its own: every lead and follow within the bounds, the   *)
(* follow read from another file than the lead or from the same one.       *)

NoResult == [tag |-> "none", cut |-> <<>>, printed |-> <<>>]

JoinIdle ==
    /\ hashes = <<>> /\ jwindow = 0 /\ jlead = <<>> /\ jidx = 0
    /\ jstate = "idle" /\ stdout = <<>>

LoadIdle == lines = <<>> /\ loaded = [tag |-> "idle", value |-> <<>>]

FlvIdle ==
    /\ fsrc = [header |-> "none", tags |-> <<>>, cut |-> 0]
    /\ fbytes = <<>> /\ fpos = 0 /\ rstate = "idle"
    /\ hashlog = [v |-> <<>>, a |-> <<>>, m |-> <<>>]
    /\ tags = <<>> /\ warns = <<>>

NoNorm == [tag |-> "none", data |-> <<>>]

NormIdle ==
    /\ payload = <<>> /\ nargs = [hls_fix |-> FALSE, vheader_ignore |-> FALSE]
    /\ norm1 = NoNorm /\ norm2 = NoNorm

NoOutput == [written |-> FALSE, lines |-> <<>>]

MainIdle ==
    /\ files = <<>> /\ disk = <<>> /\ mpc = "idle"
    /\ v_hashes = <<>> /\ a_hashes = <<>> /\ v_hash = <<>> /\ a_hash = <<>>
    /\ outfile = NoOutput /\ moved = <<>>

MatchIdle == lead = <<>> /\ follow = <<>> /\ match_num = 0 /\ mres = NoResult

InitMatch ==
    /\ \E hs \in SeqsOf(Hashes, 1, MaxLead) : lead = Segment(hs, "f1")
    /\ \E hs \in SeqsOf(Hashes, 1, MaxFollow), fn \in Files : follow = Segment(hs, fn)
    /\ match_num \in 1..MaxWindow
    /\ mres = NoResult
    /\ JoinIdle /\ LoadIdle /\ FlvIdle /\ NormIdle /\ MainIdle

CallMatch ==
    /\ mres.tag = "none"
    /\ lead # <<>>
    /\ mres' = Match(lead, follow, match_num)
    /\ UNCHANGED <<lead, follow, match_num, joinVars, loadVars, flvVars, normVars, mainVars>>

NextMatch == CallMatch

SpecMatch == InitMatch /\ [][NextMatch]_vars

-----------------------------------------------------------------------------
(* combine_hash.match_and_join and join_hashes *)

\* `while lead[-1][5] in ['end']: lead = lead[:-1]`; lead[-1] of an empty
\* list raises IndexError
RECURSIVE TrimEnd(_)
TrimEnd(ld) ==
    IF ld = <<>> THEN [tag |-> "IndexError", value |-> <<>>]
    ELSE IF ld[Len(ld)].ptype \in {"end"} THEN TrimEnd(Slice(ld, 0, -1))
    ELSE [tag |-> "ok", value |-> ld]

\* `while follow[0][5] in ['header']: follow = follow[1:]`
RECURSIVE TrimHeader(_)
TrimHeader(fl) ==
    IF fl = <<>> THEN [tag |-> "IndexError", value |-> <<>>]
    ELSE IF fl[1].ptype \in {"header"} THEN TrimHeader(SliceFrom(fl, 1))
    ELSE [tag |-> "ok", value |-> fl]

\* `a_end, b_start = match(lead, follow); return lead[:a_end] + follow[b_start:]`
\* on the trimmed lists
JoinTrimmed(ld, fl, n) ==
    LET r == Match(ld, fl, n)
    IN  IF r.tag # "return" THEN [tag |-> r.tag, value |-> <<>>, printed |-> r.printed]
        ELSE [tag |-> "return", value |-> Joined(ld, fl, r.cut), printed |-> r.printed]

MatchAndJoin(ld, fl, n) ==
    LET tl == TrimEnd(ld)
        tf == TrimHeader(fl)
    IN  IF tl.tag # "ok" THEN [tag |-> tl.tag, value |-> <<>>, printed |-> <<>>]
        ELSE IF tf.tag # "ok" THEN [tag |-> tf.tag, value |-> <<>>, printed |-> <<>>]
        ELSE \* the trimmed lists are computed once and handed on as values
             CHOOSE res \in {JoinTrimmed(t[1], t[2], n) : t \in {<<tl.value, tf.value>>}} : TRUE

FileName(i) == IF i = 1 THEN "f1" ELSE IF i = 2 THEN "f2" ELSE IF i = 3 THEN "f3" ELSE "f4"

\* a segment as the hasher writes it for an AVC stream: the sequence header
\* first and the end-of-sequence record last
Marked(seg) ==
    <<Rec("hdr", 0, "header", seg[1].fn)>>
    \o [i \in 1..Len(seg) |-> Rec(seg[i].md5, i, "NALU", seg[i].fn)]
    \o <<Rec("eos", Len(seg) + 1, "end", seg[1].fn)>>

InitJoin ==
    /\ \E hss \in SeqsOf(SeqsOf(JHashes, 1, MaxSegLen), 0, MaxSegs), marked \in BOOLEAN :
          hashes = [i \in 1..Len(hss) |->
                       IF marked THEN Marked(Segment(hss[i], FileName(i)))
                       ELSE Segment(hss[i], FileName(i))]
    /\ jwindow \in 1..MaxWindow
    /\ jlead = <<>> /\ jidx = 0 /\ jstate = "start" /\ stdout = <<>>
    /\ MatchIdle /\ LoadIdle /\ FlvIdle /\ NormIdle /\ MainIdle

\* `if not hashes: return []`
JoinEmpty ==
    /\ jstate = "start" /\ hashes = <<>>
    /\ jstate' = "returned" /\ jlead' = <<>>
    /\ UNCHANGED <<hashes, jwindow, jidx, stdout, matchVars, loadVars, flvVars, normVars, mainVars>>

\* `lead = hashes[0]`
JoinFirst ==
    /\ jstate = "start" /\ hashes # <<>>
    /\ jlead' = hashes[1] /\ jidx' = 1 /\ jstate' = "loop"
    /\ UNCHANGED <<hashes, jwindow, stdout, matchVars, loadVars, flvVars, normVars, mainVars>>

\* one turn of `for follow in hashes[1:]: lead = match_and_join(lead, follow)`
JoinStep ==
    /\ jstate = "loop" /\ jidx < Len(hashes)
    /\ \E r \in {MatchAndJoin(jlead, hashes[jidx + 1], jwindow)} :
           /\ stdout' = stdout \o r.printed
           /\ IF r.tag = "return"
              THEN jlead' = r.value /\ jidx' = jidx + 1 /\ jstate' = "loop"
              ELSE jstate' = r.tag /\ UNCHANGED <<jlead, jidx>>
    /\ UNCHANGED <<hashes, jwindow, matchVars, loadVars, flvVars, normVars, mainVars>>

\* `return lead`
JoinReturn ==
    /\ jstate = "loop" /\ jidx = Len(hashes)
    /\ jstate' = "returned"
    /\ UNCHANGED <<hashes, jwindow, jlead, jidx, stdout, matchVars, loadVars, flvVars, normVars, mainVars>>

NextJoin == JoinEmpty \/ JoinFirst \/ JoinStep \/ JoinReturn

SpecJoin == InitJoin /\ [][NextJoin]_vars

-----------------------------------------------------------------------------
(* Vocabulary of the statements about match (SpecMatch) *)

Called == mres.tag # "none"

\* the fingerprints of the two windows match looks at
LeadWin   == Md5s(SliceFrom(lead, -match_num))
FollowWin == Md5s(SliceTo(follow, match_num))

\* the longest common contiguous run of the two windows: 0-based start in
\* lead's window, 0-based start in follow's window, length
Run     == FindLongestMatch(LeadWin, FollowWin)
RunA    == Run[1]
RunB    == Run[2]
RunSize == Run[3]

\* the run starts at offset 0 or 1 of follow's window and ends at the last
\* position of lead's window
RunAnchored == RunSize > 0 /\ RunB <= 1 /\ RunA + RunSize = Len(LeadWin)

\* the run is all of a follow that is shorter than the window
RunConsumesFollow ==
    RunSize > 0 /\ RunB = 0 /\ RunSize = Len(follow) /\ Len(follow) < match_num

NoOverlapPair == mres.tag = "return" /\ mres.cut = <<Len(lead), 0>>

NoCommonFingerprint ==
    \A i \in 1..Len(lead), j \in 1..Len(follow) : lead[i].md5 # follow[j].md5

\* sub occurs as a contiguous run of seq
Occurs(sub, seq) ==
    \E i \in 0..(Len(seq) - Len(sub)) : SubSeq(seq, i + 1, i + Len(sub)) = sub

-----------------------------------------------------------------------------
(* C2: when the longest common run starts at offset 0 or 1 of follow's     *)
(* window and ends at the last position of lead's window, wherever it      *)
(* starts in lead's window, match returns the cut pair                     *)
(* (len(lead) - window + matchStartInLead, matchStartInFollow).            *)
C2_AnchoredRunIsCut ==
    (Called /\ RunAnchored)
        => (mres.tag = "return" /\ mres.cut = <<Len(lead) - match_num + RunA, RunB>>)

(* C3 as stated: whenever the longest common run has length exactly 1, at  *)
(* any position, match returns the no-overlap pair (len(lead), 0).         *)
C3_SingleRunIsNoOverlap == (Called /\ RunSize = 1) => NoOverlapPair

(* C3 as amended: a longest common run of length exactly 1 gives the       *)
(* no-overlap pair, and nothing is trimmed, when the run starts at the     *)
(* first position of lead's window, or when it is neither anchored (offset *)
(* 0 or 1 of follow's window, last position of lead's window) nor all of a *)
(* one-record follow.                                                      *)
C3_UnanchoredSingleRunIsNoOverlap ==
    (Called /\ RunSize = 1 /\ (RunA = 0 \/ (~RunAnchored /\ ~RunConsumesFollow)))
        => (NoOverlapPair /\ Joined(lead, follow, mres.cut) = lead \o follow)

C3_Witness ==
    /\ Called /\ RunSize = 1 /\ RunA > 0 /\ RunB = 0
    /\ ~RunAnchored /\ ~RunConsumesFollow
    /\ NoOverlapPair
    /\ Len(lead) > match_num

(* C4: whenever follow is shorter than the window and all of follow occurs *)
(* as a contiguous run inside lead's window, match returns                 *)
(* (len(lead), len(follow)).                                               *)
C4_ContainedFollowIsConsumed ==
    (Called /\ Len(follow) < match_num /\ Occurs(Md5s(follow), LeadWin))
        => (mres.tag = "return" /\ mres.cut = <<Len(lead), Len(follow)>>)

(* C5: for a common run of length at least 2 that is neither anchored nor  *)
(* all of a short follow, match returns the no-overlap pair exactly when   *)
(* the fingerprints compared at the run's start differ and the             *)
(* fingerprints compared at the run's end differ; in every other such case *)
(* it raises the assertion failure.  The fingerprints are taken where the  *)
(* code takes its records: lead[a], follow[b], lead[a+size-1],             *)
(* follow[b+size-1].                                                       *)
C5_InternalRunDecidedByFingerprints ==
    (Called /\ RunSize >= 2 /\ ~RunAnchored /\ ~RunConsumesFollow)
        => IF /\ lead[RunA + 1].md5 # follow[RunB + 1].md5
              /\ lead[RunA + RunSize].md5 # follow[RunB + RunSize].md5
           THEN NoOverlapPair
           ELSE mres.tag = "AssertionError"

(* C6: for a non-empty lead and a non-empty follow with no fingerprint in  *)
(* common, match returns (len(lead), 0), prints one no-overlap line naming *)
(* the file of lead's last record and the file of follow's first record,   *)
(* and the join is lead followed by all of follow.                         *)
C6_DisjointIsNoOverlap ==
    (Called /\ NoCommonFingerprint)
        => /\ NoOverlapPair
           /\ mres.printed = <<[text |-> "No overlap between",
                                leadfile |-> lead[Len(lead)].fn,
                                followfile |-> follow[1].fn]>>
           /\ Joined(lead, follow, mres.cut) = lead \o follow
           /\ Len(Joined(lead, follow, mres.cut)) = Len(lead) + Len(follow)

C6_Witness ==
    /\ Called /\ NoCommonFingerprint /\ NoOverlapPair
    /\ Len(lead) > match_num /\ Len(follow) > 1
    /\ follow[1].fn # lead[Len(lead)].fn

-----------------------------------------------------------------------------
(* Vocabulary of the statement about join_hashes (SpecJoin) *)

JoinEnded == jstate \notin {"start", "loop"}

AllContent == \A i \in 1..Len(hashes) : \A j \in 1..Len(hashes[i]) : hashes[i][j].ptype = "NALU"

Distinct(hs) == \A i, j \in 1..Len(hs) : hs[i] = hs[j] => i = j

Range(hs) == {hs[i] : i \in 1..Len(hs)}

\* the lengths k for which the last k fingerprints of acc are the first k of f
Overlaps(acc, f) ==
    {k \in 1..Min2(Len(acc), Len(f)) :
        SubSeq(Md5s(acc), Len(acc) - k + 1, Len(acc)) = SubSeq(Md5s(f), 1, k)}

OverlapLen(acc, f) ==
    IF Overlaps(acc, f) = {} THEN 0
    ELSE CHOOSE k \in Overlaps(acc, f) : \A m \in Overlaps(acc, f) : m <= k

\* acc and f share no fingerprint, or they have a genuine anchored overlap:
\* neither repeats a fingerprint and the fingerprints they share are exactly
\* the overlapping records
GenuinePair(acc, f) ==
    \/ Range(Md5s(acc)) \cap Range(Md5s(f)) = {}
    \/ /\ Distinct(Md5s(acc)) /\ Distinct(Md5s(f))
       /\ OverlapLen(acc, f) > 0
       /\ Range(Md5s(acc)) \cap Range(Md5s(f)) = Range(SubSeq(Md5s(f), 1, OverlapLen(acc, f)))

\* the first segment followed by each later segment minus its overlap
RECURSIVE ExpectedJoin(_, _)
ExpectedJoin(acc, i) ==
    IF i > Len(hashes) THEN acc
    ELSE ExpectedJoin(acc \o SubSeq(hashes[i], OverlapLen(acc, hashes[i]) + 1, Len(hashes[i])),
                      i + 1)

RECURSIVE GenuineFrom(_, _)
GenuineFrom(acc, i) ==
    IF i > Len(hashes) THEN TRUE
    ELSE /\ GenuinePair(acc, hashes[i])
         /\ GenuineFrom(acc \o SubSeq(hashes[i], OverlapLen(acc, hashes[i]) + 1, Len(hashes[i])),
                        i + 1)

(* C1: when each consecutive pair of segments has a genuine anchored       *)
(* overlap or shares no fingerprint, join_hashes returns the first segment *)
(* followed, for each later segment in order, by that segment minus its    *)
(* overlapping leading records, whatever the segment lengths are           *)
(* (shorter than the window included).                                     *)
C1_JoinKeepsAllButOverlaps ==
    (JoinEnded /\ hashes # <<>> /\ AllContent /\ GenuineFrom(hashes[1], 2))
        => /\ jstate = "returned"
           /\ jlead = ExpectedJoin(hashes[1], 2)

-----------------------------------------------------------------------------
(* flv_hasher: the bytes of a container file *)

\* v as n big-endian bytes
UI(n, v) == [i \in 1..n |-> (v \div (256 ^ (n - i))) % 256]

\* big_endian_to_int
RECURSIVE big_endian_to_int(_)
big_endian_to_int(bs) ==
    IF bs = <<>> THEN 0
    ELSE big_endian_to_int(SubSeq(bs, 1, Len(bs) - 1)) * 256 + bs[Len(bs)]

\* the 9-byte header and the 4-byte field after it: "FLV", version 1, flags
\* audio+video, header size 9, then 0
HeaderBytes(kind) ==
    (IF kind = "badsig" THEN <<70, 76, 88>> ELSE <<70, 76, 86>>)
    \o (IF kind = "badver" THEN <<2>> ELSE <<1>>)
    \o (IF kind = "reserved" THEN <<7>> ELSE <<5>>)
    \o (IF kind = "badsize" THEN <<0, 0, 0, 13>> ELSE <<0, 0, 0, 9>>)
    \o (IF kind = "badzero" THEN <<0, 0, 0, 1>> ELSE <<0, 0, 0, 0>>)

Payload(t) == [i \in 1..t.size |-> IF i = 1 THEN t.b0 ELSE t.b1]

TagBytes(t) ==
    <<t.type>> \o UI(3, t.size) \o UI(3, t.tslow) \o <<t.tsext>> \o UI(3, t.sid)
    \o Payload(t) \o UI(4, t.tsize)

RECURSIVE AllTagBytes(_)
AllTagBytes(ts) == IF ts = <<>> THEN <<>> ELSE TagBytes(ts[1]) \o AllTagBytes(Tail(ts))

\* the file: header, tags, and the last `cut` bytes missing
FileBytes(src) ==
    LET full == HeaderBytes(src.header) \o AllTagBytes(src.tags)
    IN  SubSeq(full, 1, Len(full) - src.cut)

\* the kinds of tag the files of the model hold: an AVC video tag, an AAC
\* audio tag with an extended timestamp, a script tag of zero bytes with a
\* stream id that is not 0
TagShapes ==
    { [type |-> 9,  b0 |-> 23,  b1 |-> 1, tslow |-> 1500, tsext |-> 0, sid |-> 0],
      [type |-> 8,  b0 |-> 175, b1 |-> 1, tslow |-> 40,   tsext |-> 1, sid |-> 0],
      [type |-> 18, b0 |-> 0,   b1 |-> 0, tslow |-> 7,    tsext |-> 0, sid |-> 1] }

SourceTags ==
    { [type |-> sh.type, b0 |-> sh.b0, b1 |-> sh.b1, tslow |-> sh.tslow,
       tsext |-> sh.tsext, sid |-> sh.sid, size |-> sz,
       tsize |-> IF good THEN sz + 11 ELSE sz + 12] :
      sh \in TagShapes, sz \in 0..MaxData, good \in BOOLEAN }

HeaderKinds == {"ok", "badsig", "badver", "reserved", "badsize", "badzero"}

-----------------------------------------------------------------------------
(* FlvReader: reading *)

\* read_bytes(size) at position pos: file.read returns what is left and moves
\* to the end of the file when fewer than size bytes are left
ReadBytes(bytes, pos, size) ==
    LET data == Slice(bytes, pos, pos + size)
    IN  [ok |-> Len(data) = size, data |-> data, pos |-> pos + Len(data)]

\* read_int(size): read_ui8, read_ui24, read_ui32
ReadInt(bytes, pos, size) ==
    LET r == ReadBytes(bytes, pos, size)
    IN  [ok |-> r.ok, value |-> big_endian_to_int(r.data), pos |-> r.pos]

\* parse_header: the exception it raises, or "ok"
ParseHeader(bytes) ==
    LET r == ReadBytes(bytes, 0, 9)
        h == r.data
    IN  IF ~r.ok THEN "IOError"
        ELSE IF SubSeq(h, 1, 3) # <<70, 76, 86>> THEN "ValueError"
        ELSE IF h[4] # 1 THEN "ValueError"
        ELSE IF (h[5] \div 2) % 2 = 1 \/ h[5] \div 8 # 0 THEN "ValueError"
        ELSE IF big_endian_to_int(SubSeq(h, 6, 9)) # 9 THEN "ValueError"
        ELSE "ok"

\* FlvReader.__init__: parse_header(), then `assert self.read_ui32() == 0`
OpenReader(bytes) ==
    LET hdr  == ParseHeader(bytes)
        zero == ReadInt(bytes, 9, 4)
    IN  IF hdr # "ok" THEN [tag |-> hdr, pos |-> Min2(9, Len(bytes))]
        ELSE IF ~zero.ok THEN [tag |-> "IOError", pos |-> zero.pos]
        ELSE IF zero.value # 0 THEN [tag |-> "AssertionError", pos |-> zero.pos]
        ELSE [tag |-> "ok", pos |-> zero.pos]

-----------------------------------------------------------------------------
(* FlvTag *)

\* filter_vheader on a payload shorter than the 16-byte marker
\* "BVCLIVETIMESTAMP": the padding at data[5:10] is cut out if it is there,
\* the marker is not there, so `assert data[:3] != b'\x00\x00\x00'` decides
FilterVheader(data) ==
    LET unpadded == IF SliceTo(Slice(data, 5, 10), 5) = <<0, 0, 0, 2, 9>>
                    THEN SliceTo(data, 5) \o SliceFrom(data, 11)
                    ELSE data
    IN  IF SliceTo(unpadded, 3) = <<0, 0, 0>>
        THEN [tag |-> "AssertionError", data |-> <<>>]
        ELSE [tag |-> "ok", data |-> unpadded]

\* FlvTag.data with the default arguments (no --hls_fix, no --vheader_ignore)
TagData(raw) == FilterVheader(raw)

\* FlvTag.type: {8: 'audio', 9: 'video', 18: 'script'}.get(type_id, type_id)
TagTypes == (8 :> "audio") @@ (9 :> "video") @@ (18 :> "script")

IsType(type_id, name) == type_id \in DOMAIN TagTypes /\ TagTypes[type_id] = name

\* get_meta_desc, and the `.get` of FlvTag.type: the name the table gives the
\* value, else the value itself
Describe(value, table) ==
    IF value \in DOMAIN table THEN [name |-> table[value]] ELSE [code |-> value]

\* a key that is not in the meta dictionary reads as None, here -1
NoMeta ==
    [frame_type |-> -1, codec_id |-> -1, avc_packet_type |-> -1,
     sound_format |-> -1, sound_rate |-> -1]

\* parse_meta: the meta dictionary, or the IndexError of `self.data[1]` on a
\* one-byte AVC payload
ParseMeta(type_id, data) ==
    IF data = <<>> THEN [tag |-> "ok", meta |-> NoMeta]
    ELSE IF IsType(type_id, "video")
    THEN IF data[1] % 16 = 7 /\ Len(data) < 2
         THEN [tag |-> "IndexError", meta |-> NoMeta]
         ELSE [tag |-> "ok",
               meta |-> [NoMeta EXCEPT !.frame_type = data[1] \div 16,
                                       !.codec_id = data[1] % 16,
                                       !.avc_packet_type =
                                           IF data[1] % 16 = 7 THEN data[2] ELSE -1]]
    ELSE IF IsType(type_id, "audio")
    THEN [tag |-> "ok",
          meta |-> [NoMeta EXCEPT !.sound_format = data[1] \div 16,
                                  !.sound_rate = (data[1] % 16) \div 4]]
    ELSE [tag |-> "ok", meta |-> NoMeta]

\* FlvTag.__init__: the tag, or the exception normalization or parse_meta raises
FlvTag(type_id, timestamp, raw, pos) ==
    LET d == TagData(raw)
        m == ParseMeta(type_id, d.data)
    IN  IF d.tag # "ok" THEN [tag |-> d.tag]
        ELSE IF m.tag # "ok" THEN [tag |-> m.tag]
        ELSE [tag |-> "ok", type_id |-> type_id, timestamp |-> timestamp,
              raw |-> raw, data |-> d.data, pos |-> pos, meta |-> m.meta]

\* hexdigest: md5 plus a prefix of sha1 of the normalized payload; a digest is
\* modelled by the bytes it is the digest of
Hexdigest(data) == <<"md5+sha1", data>>

\* timecode: '%02d:%02d:%06.3f' of hours, minutes, seconds with milliseconds
Timecode(timestamp) ==
    <<timestamp \div 3600000, (timestamp \div 60000) % 60, timestamp % 60000>>

\* get_meta_desc: the name the table gives the value, else the value itself
FrameTypes  == (1 :> "I") @@ (2 :> " P")
PacketTypes == (0 :> "header") @@ (1 :> "NALU") @@ (2 :> "end")
SoundRates  == (3 :> "44kHz")
SoundFormats == (10 :> "AAC")

\* the line dump_hash writes for a tag, and the log it goes to
LogOf(t) ==
    IF IsType(t.type_id, "video") THEN "v"
    ELSE IF IsType(t.type_id, "audio") THEN "a" ELSE "m"

LogLine(t) ==
    IF IsType(t.type_id, "video")
    THEN [md5 |-> Hexdigest(t.data), timecode |-> Timecode(t.timestamp),
          desc |-> Describe(t.meta.frame_type, FrameTypes),
          pos |-> t.pos, size |-> Len(t.data),
          ptype |-> IF t.meta.codec_id = 7
                    THEN Describe(t.meta.avc_packet_type, PacketTypes) ELSE [code |-> -1]]
    ELSE IF IsType(t.type_id, "audio")
    THEN [md5 |-> Hexdigest(t.data), timecode |-> Timecode(t.timestamp),
          desc |-> Describe(t.meta.sound_rate, SoundRates),
          pos |-> t.pos, size |-> Len(t.data),
          ptype |-> Describe(t.meta.sound_format, SoundFormats)]
    ELSE [md5 |-> Hexdigest(t.data), timecode |-> Timecode(t.timestamp),
          desc |-> Describe(t.type_id, TagTypes), size |-> Len(t.data)]

-----------------------------------------------------------------------------
(* FlvReader.get_next_tag and the loop of dump_hash over iter_tag *)

\* `if stream_id != 0: logger.warn(...)`
StreamIdCheck(stream_id) ==
    IF stream_id # 0 THEN <<[warning |-> "Unexpected stream_id", value |-> stream_id]>>
    ELSE <<>>

\* variant: a trailing size that does not match is fatal
TagSizeCheckStrict(tag_size, data_size) ==
    [tag   |-> IF tag_size # data_size + 11 THEN "AssertionError" ELSE "ok",
     warns |-> <<>>]

\* `if tag_size != data_size + 11: logger.warn(...)`: the exception raised
\* ("ok": none) and the warnings logged
TagSizeCheck(tag_size, data_size) ==
    [tag   |-> "ok",
     warns |-> IF tag_size # data_size + 11
               THEN <<[warning |-> "Tag size does not match data size",
                       tag_size |-> tag_size, data_size |-> data_size]>>
               ELSE <<>>]

\* variant: the trailing size is read as three bytes
ReadTagSize24(bytes, pos) == ReadInt(bytes, pos, 3)

\* `tag_size = self.read_ui32()`
ReadTagSize(bytes, pos) == ReadInt(bytes, pos, 4)

\* get_next_tag at file position pos: "ok" with the tag, or the exception;
\* in both cases the new file position and the warnings logged on the way
GetNextTag(bytes, pos) ==
    LET fh_pos    == pos
        tag_type  == ReadInt(bytes, pos, 1)
        data_size == ReadInt(bytes, tag_type.pos, 3)
        ts_low    == ReadInt(bytes, data_size.pos, 3)
        ts_ext    == ReadInt(bytes, ts_low.pos, 1)
        timestamp == ts_low.value + ts_ext.value * (2 ^ 24)
        stream_id == ReadInt(bytes, ts_ext.pos, 3)
        w1        == StreamIdCheck(stream_id.value)
        data      == ReadBytes(bytes, stream_id.pos, data_size.value)
        tag_size  == ReadTagSize(bytes, data.pos)
        check     == TagSizeCheck(tag_size.value, data_size.value)
        flv_tag   == FlvTag(tag_type.value, timestamp, data.data, fh_pos)
        Eof(p, w) == [tag |-> "IOError", pos |-> p, warns |-> w]
    IN  IF ~tag_type.ok THEN Eof(tag_type.pos, <<>>)
        ELSE IF ~data_size.ok THEN Eof(data_size.pos, <<>>)
        ELSE IF ~ts_low.ok THEN Eof(ts_low.pos, <<>>)
        ELSE IF ~ts_ext.ok THEN Eof(ts_ext.pos, <<>>)
        ELSE IF ~stream_id.ok THEN Eof(stream_id.pos, <<>>)
        ELSE IF ~data.ok THEN Eof(data.pos, w1)
        ELSE IF ~tag_size.ok THEN Eof(tag_size.pos, w1)
        ELSE IF check.tag # "ok"
        THEN [tag |-> check.tag, pos |-> tag_size.pos, warns |-> w1 \o check.warns]
        ELSE IF flv_tag.tag # "ok"
        THEN [tag |-> flv_tag.tag, pos |-> tag_size.pos, warns |-> w1 \o check.warns]
        ELSE [tag |-> "ok", pos |-> tag_size.pos, warns |-> w1 \o check.warns,
              flv_tag |-> flv_tag]

\* variant: iter_tag without the `except IOError` clause
IterTagUncaught(exc) == exc

\* iter_tag: `except IOError: break` ends the iteration ("done"); any other
\* exception leaves the generator and dump_hash
IterTagOutcome(exc) == IF exc = "IOError" THEN "done" ELSE exc

EmptyLog == [v |-> <<>>, a |-> <<>>, m |-> <<>>]

WriteLog(log, t) == [log EXCEPT ![LogOf(t)] = Append(@, LogLine(t))]

InitFlv ==
    /\ \E kind \in HeaderKinds, ts \in SeqsOf(SourceTags, 0, MaxTags) :
          \E cut \in 0..Min2(MaxCut, Len(HeaderBytes(kind) \o AllTagBytes(ts))) :
             /\ kind # "ok" => ts = <<>>
             /\ fsrc = [header |-> kind, tags |-> ts, cut |-> cut]
    /\ fbytes = FileBytes(fsrc)
    /\ fpos = 0 /\ rstate = "new" /\ hashlog = EmptyLog /\ tags = <<>> /\ warns = <<>>
    /\ MatchIdle /\ JoinIdle /\ LoadIdle /\ NormIdle /\ MainIdle

\* `reader = FlvReader(f, args)`
Open ==
    /\ rstate = "new"
    /\ \E r \in {OpenReader(fbytes)} :
          /\ fpos' = r.pos
          /\ rstate' = IF r.tag = "ok" THEN "iter" ELSE r.tag
    /\ UNCHANGED <<fsrc, fbytes, hashlog, tags, warns, matchVars, joinVars, loadVars, normVars, mainVars>>

\* one turn of `for tag in self.iter_tag():` in dump_hash: the tag is read and
\* its line is written; IOError ends the iteration, any other exception
\* leaves dump_hash
NextTag ==
    /\ rstate = "iter"
    /\ \E r \in {GetNextTag(fbytes, fpos)} :
          /\ fpos' = r.pos
          /\ warns' = warns \o r.warns
          /\ IF r.tag = "ok"
             THEN /\ tags' = Append(tags, r.flv_tag)
                  /\ hashlog' = WriteLog(hashlog, r.flv_tag)
                  /\ rstate' = "iter"
             ELSE /\ rstate' = IterTagOutcome(r.tag)
                  /\ UNCHANGED <<tags, hashlog>>
    /\ UNCHANGED <<fsrc, fbytes, matchVars, joinVars, loadVars, normVars, mainVars>>

NextFlv == Open \/ NextTag

SpecFlv == InitFlv /\ [][NextFlv]_vars

-----------------------------------------------------------------------------
(* Vocabulary of the statements about the tag reader (SpecFlv) *)

\* the file position after tag t: its offset, 11 header bytes, the payload,
\* the 4-byte trailing size
EndOfTag(t) == t.pos + 11 + Len(t.raw) + 4

\* where the tag after the yielded ones would begin
EndOfYielded == IF tags = <<>> THEN 13 ELSE EndOfTag(tags[Len(tags)])

\* the header is well formed and no byte of the file is missing
ValidFile == fsrc.header = "ok" /\ fsrc.cut = 0

ReaderEnded == rstate \notin {"new", "iter"}

\* the file as it would be with every trailing size field correct
Corrected(src) ==
    [src EXCEPT !.tags = [i \in 1..Len(src.tags) |->
                             [src.tags[i] EXCEPT !.tsize = src.tags[i].size + 11]]]

\* what the loop of dump_hash leaves behind on a file that opens at offset 13
RECURSIVE RunReader(_, _, _)
RunReader(bytes, pos, log) ==
    LET r == GetNextTag(bytes, pos)
    IN  IF r.tag = "ok" THEN RunReader(bytes, r.pos, WriteLog(log, r.flv_tag))
        ELSE [rstate |-> IterTagOutcome(r.tag), hashlog |-> log]

\* the yielded tag i is the i-th tag of the file, at its offset
SameAsSource(i) ==
    /\ tags[i].type_id = fsrc.tags[i].type
    /\ tags[i].timestamp = fsrc.tags[i].tslow + fsrc.tags[i].tsext * 16777216
    /\ tags[i].raw = Payload(fsrc.tags[i])
    /\ tags[i].pos = 13 + Len(AllTagBytes(SubSeq(fsrc.tags, 1, i - 1)))

\* the number of tags of the file that are wholly in its bytes
CompleteTags ==
    Cardinality({i \in 1..Len(fsrc.tags) :
                    13 + Len(AllTagBytes(SubSeq(fsrc.tags, 1, i))) <= Len(fbytes)})

C8_TagsPartitionFile ==
    ValidFile =>
        /\ \A i \in 1..Len(tags) :
              /\ tags[i].pos = IF i = 1 THEN 13
                               ELSE tags[i - 1].pos + 11 + Len(tags[i - 1].raw) + 4
              /\ i > 1 => tags[i].pos > tags[i - 1].pos
              /\ tags[i].raw = Payload(fsrc.tags[i])
        /\ rstate = "done" => (Len(tags) = Len(fsrc.tags) /\ EndOfYielded = Len(fbytes))

C8_Witness ==
    /\ ValidFile /\ rstate = "done" /\ Len(tags) = 2
    /\ Len(tags[1].raw) = 2 /\ Len(tags[2].raw) = 0
    /\ tags[2].pos = 30 /\ Len(fbytes) = 45

(* C9: a tag whose trailing size field differs from payload size + 11 is   *)
(* yielded with the type, timestamp, payload and offset it has in the      *)
(* file, a warning is logged for it, the iteration goes on to the tags     *)
(* after it, and the fingerprint logs end up the same as those of the file *)
(* with correct trailing sizes.                                            *)
C9_TrailingSizeIsAdvisory ==
    /\ \A i \in 1..Len(tags) :
          /\ SameAsSource(i)
          /\ fsrc.tags[i].tsize # fsrc.tags[i].size + 11
                => \E w \in 1..Len(warns) :
                      warns[w] = [warning |-> "Tag size does not match data size",
                                  tag_size |-> fsrc.tags[i].tsize,
                                  data_size |-> fsrc.tags[i].size]
    /\ (ReaderEnded /\ fsrc.header = "ok" /\ Len(fbytes) >= 13)
          => [rstate |-> rstate, hashlog |-> hashlog]
                = RunReader(FileBytes(Corrected(fsrc)), 13, EmptyLog)

C9_Witness ==
    /\ rstate = "done" /\ Len(tags) = 2 /\ Len(fsrc.tags) = 2
    /\ fsrc.tags[1].tsize # fsrc.tags[1].size + 11
    /\ fsrc.tags[2].tsize = fsrc.tags[2].size + 11
    /\ Len(hashlog.v) = 1 /\ Len(hashlog.a) = 1
    /\ Len(warns) = 1

-----------------------------------------------------------------------------
(* combine_hash.load_hashfile.  A line of the log is a sequence of tokens: *)
(* a tab, a blank, a newline, or a string without whitespace.              *)

Whitespace == {" ", "\t", "\n"}

LeadSentinels ==
    {"385582ab16cda6cd4679a885595934d8", "bfe0f881f9171d081de1b75dd22036c1",
     "3b39b1eba5581f61885ba84348d6022b", "890bbdf2f5c958a93a873a0aac693b5e"}

TrailSentinel == "4190e69bc46ee05ab77499152204f527"

\* line.strip()
RECURSIVE Strip(_)
Strip(line) ==
    IF line = <<>> THEN <<>>
    ELSE IF line[1] \in Whitespace THEN Strip(Tail(line))
    ELSE IF line[Len(line)] \in Whitespace THEN Strip(SubSeq(line, 1, Len(line) - 1))
    ELSE line

\* line.split('\t'): the fields between the tabs, each a sequence of tokens
RECURSIVE Split(_, _)
Split(line, field) ==
    IF line = <<>> THEN <<field>>
    ELSE IF line[1] = "\t" THEN <<field>> \o Split(Tail(line), <<>>)
    ELSE Split(Tail(line), Append(field, line[1]))

\* the body of the loop over the lines: the records so far, or ValueError
\* when `md5, ts = fields[:2]` finds fewer than two fields
RECURSIVE ParseLines(_, _, _)
ParseLines(ls, fn, acc) ==
    IF ls = <<>> THEN [tag |-> "ok", value |-> acc]
    ELSE LET line   == Strip(ls[1])
             fields == Split(line, <<>>)
         IN  IF line = <<>> THEN ParseLines(Tail(ls), fn, acc)
             ELSE IF Len(SliceTo(fields, 2)) # 2 THEN [tag |-> "ValueError", value |-> <<>>]
             ELSE ParseLines(Tail(ls), fn, Append(acc, Append(fields, <<fn>>)))

\* `if hashes[0][0] in [...]: start = 1`
LeadStart(hs) == IF hs[1][1] \in {<<x>> : x \in LeadSentinels} THEN 1 ELSE 0

\* variant: the last record is always dropped
TrailEndAlways(hs) == -1

\* `if hashes[-1][0] == "4190...": end = -1`
TrailEnd(hs) == IF hs[Len(hs)][1] = <<TrailSentinel>> THEN -1 ELSE Len(hs)

LoadHashfile(ls, fn) ==
    LET parsed == ParseLines(ls, fn, <<>>)
    IN  IF parsed.tag # "ok" THEN [tag |-> parsed.tag, value |-> <<>>]
        ELSE IF parsed.value = <<>> THEN [tag |-> "IndexError", value |-> <<>>]
        ELSE [tag |-> "return",
              value |-> Slice(parsed.value, LeadStart(parsed.value), TrailEnd(parsed.value))]

\* the line dump_hash writes for a video tag with this fingerprint and offset
RecordLine(md5, pos) ==
    <<md5, "\t", "00:00:01.500", "\t", "I", "\t", " ", pos, "\t", " ", "2", "\t",
      "NALU", "\n">>

LoadMd5s ==
    {"385582ab16cda6cd4679a885595934d8", "890bbdf2f5c958a93a873a0aac693b5e",
     "4190e69bc46ee05ab77499152204f527", "h1"}

\* record lines, blank lines, and a line with a single field
LogLines ==
    {RecordLine(h, "13") : h \in LoadMd5s} \cup {RecordLine("h1", "30")}
    \cup {<<"\n">>, <<" ", "\n">>} \cup {<<"h1", "\n">>}

InitLoad ==
    /\ lines \in SeqsOf(LogLines, 0, MaxLines)
    /\ loaded = [tag |-> "none", value |-> <<>>]
    /\ MatchIdle /\ JoinIdle /\ FlvIdle /\ NormIdle /\ MainIdle

CallLoad ==
    /\ loaded.tag = "none"
    /\ loaded' = LoadHashfile(lines, "f1")
    /\ UNCHANGED <<lines, matchVars, joinVars, flvVars, normVars, mainVars>>

NextLoad == CallLoad

SpecLoad == InitLoad /\ [][NextLoad]_vars

-----------------------------------------------------------------------------
(* Vocabulary of the statement about load_hashfile (SpecLoad) *)

IsRecordLine(line) == \E h \in LoadMd5s, p \in {"13", "30"} : line = RecordLine(h, p)

IsBlankLine(line) == \A i \in 1..Len(line) : line[i] \in Whitespace

\* the record of a line dump_hash wrote, with the file name appended
RecordOf(line, fn) ==
    LET hp == CHOOSE hp \in LoadMd5s \X {"13", "30"} : line = RecordLine(hp[1], hp[2])
    IN  <<<<hp[1]>>, <<"00:00:01.500">>, <<"I">>, <<" ", hp[2]>>, <<" ", "2">>, <<"NALU">>,
          <<fn>>>>

\* the records of the file, in file order
RECURSIVE RecordsOf(_, _)
RecordsOf(ls, fn) ==
    IF ls = <<>> THEN <<>>
    ELSE IF IsRecordLine(ls[1]) THEN <<RecordOf(ls[1], fn)>> \o RecordsOf(Tail(ls), fn)
    ELSE RecordsOf(Tail(ls), fn)

WellFormedLog == \A i \in 1..Len(lines) : IsRecordLine(lines[i]) \/ IsBlankLine(lines[i])

(* C10: load_hashfile on a well-formed log with at least one record        *)
(* returns the records in file order, the first one dropped exactly when   *)
(* its fingerprint is a leading sentinel and the last one dropped exactly  *)
(* when its fingerprint is the trailing sentinel; on a log with no record  *)
(* the load fails.                                                         *)
C10_LoadStripsSentinels ==
    (loaded.tag # "none" /\ WellFormedLog) =>
        LET recs  == RecordsOf(lines, "f1")
            n     == Len(recs)
            first == IF recs[1][1][1] \in LeadSentinels THEN 2 ELSE 1
            last  == IF recs[n][1][1] = TrailSentinel THEN n - 1 ELSE n
        IN  IF n = 0 THEN loaded.tag = "IndexError"
            ELSE loaded.tag = "return" /\ loaded.value = SubSeq(recs, first, last)

C10_Witness ==
    /\ loaded.tag = "return" /\ WellFormedLog
    /\ Len(RecordsOf(lines, "f1")) = 3 /\ Len(loaded.value) = 1
    /\ loaded.value[1][1] = <<"h1">>

-----------------------------------------------------------------------------
(* The range of the cut pair (SpecMatch) *)

\* the number of lead's records that come before the matched run
BeforeRun == IF RunSize = 0 THEN Len(lead) ELSE Len(lead) - Len(LeadWin) + RunA

(* C14: every cut pair (leadCut, followCut) that match returns satisfies   *)
(* 0 <= leadCut <= len(lead) and 0 <= followCut <= len(follow), for leads  *)
(* shorter than, equal to and longer than the window, and the join         *)
(* lead[:leadCut] + follow[followCut:] keeps lead's records that precede   *)
(* the matched run.                                                        *)
C14_CutPairInRange ==
    (Called /\ mres.tag = "return") =>
        /\ 0 <= mres.cut[1] /\ mres.cut[1] <= Len(lead)
        /\ 0 <= mres.cut[2] /\ mres.cut[2] <= Len(follow)
        /\ SubSeq(Joined(lead, follow, mres.cut), 1, BeforeRun) = SubSeq(lead, 1, BeforeRun)

-----------------------------------------------------------------------------
(* match_and_join called on its own on a pair of segments whose records    *)
(* are headers, content and stream-end records in any order.               *)

PacketKinds == {"header", "NALU", "end"}

\* a segment of one file from the fingerprint and packet type of each record
KindSegment(ks, fn) == [i \in 1..Len(ks) |-> Rec(ks[i][1], i - 1, ks[i][2], fn)]

InitTrim ==
    /\ \E k1, k2 \in SeqsOf({"h1", "h2"} \X PacketKinds, 1, MaxTrim) :
          hashes = <<KindSegment(k1, "f1"), KindSegment(k2, "f2")>>
    /\ jwindow \in 1..MaxWindow
    /\ jlead = <<>> /\ jidx = 0 /\ jstate = "start" /\ stdout = <<>>
    /\ MatchIdle /\ LoadIdle /\ FlvIdle /\ NormIdle /\ MainIdle

\* match_and_join(hashes[0], hashes[1]); lead, follow and mres record what
\* match was called with and what it gave back
CallMatchAndJoin ==
    /\ jstate = "start"
    /\ \E tl \in {TrimEnd(hashes[1])}, tf \in {TrimHeader(hashes[2])} :
          IF tl.tag # "ok"
          THEN /\ jstate' = tl.tag
               /\ UNCHANGED <<lead, follow, match_num, mres, jlead, stdout>>
          ELSE IF tf.tag # "ok"
          THEN /\ jstate' = tf.tag
               /\ UNCHANGED <<lead, follow, match_num, mres, jlead, stdout>>
          ELSE \E r \in {Match(tl.value, tf.value, jwindow)} :
                  /\ lead' = tl.value /\ follow' = tf.value /\ match_num' = jwindow
                  /\ mres' = r
                  /\ stdout' = stdout \o r.printed
                  /\ IF r.tag = "return"
                     THEN jlead' = Joined(tl.value, tf.value, r.cut) /\ jstate' = "returned"
                     ELSE jstate' = r.tag /\ UNCHANGED jlead
    /\ UNCHANGED <<hashes, jwindow, jidx, loadVars, flvVars, normVars, mainVars>>

NextTrim == CallMatchAndJoin

SpecTrim == InitTrim /\ [][NextTrim]_vars

\* the records match_and_join removed from the two segments before matching
TrimmedAway ==
    {hashes[1][i] : i \in (Len(lead) + 1)..Len(hashes[1])}
    \cup {hashes[2][i] : i \in 1..(Len(hashes[2]) - Len(follow))}

(* C13: for every pair of non-empty segments, a lead of stream-end records *)
(* only and a follow of header records only included, trimming completes   *)
(* without error, match is called with a lead whose last record is no      *)
(* stream-end marker and a follow whose first record is no header marker,  *)
(* and the trimmed records appear nowhere in the joined result.            *)
C13_TrimmingCompletes ==
    jstate # "start" =>
        /\ mres.tag # "none"
        /\ lead # <<>> /\ lead[Len(lead)].ptype # "end"
        /\ follow # <<>> /\ follow[1].ptype # "header"
        /\ jstate = "returned" => TrimmedAway \cap Range(jlead) = {}

-----------------------------------------------------------------------------
(* combine_hash.main: the driver.  The input files are named on the        *)
(* command line; each exists or not and holds the lines of a log.          *)

DefaultWindow == 3600

\* sys.argv[1:] is drawn from these names, listed as sorted() orders them
NameOrder ==
    <<"notes.txt", "s1-hash_a.txt", "s1-hash_v.txt", "s2-hash_a.txt", "s2-hash_v.txt">>

\* `f.endswith('v.txt')`, `f.endswith('a.txt')`
EndsWithV(f) == f \in {"s1-hash_v.txt", "s2-hash_v.txt"}
EndsWithA(f) == f \in {"s1-hash_a.txt", "s2-hash_a.txt"}

\* a line of a log with the given packet type in its last field
PacketLine(md5, pos, ptype) ==
    <<md5, "\t", "00:00:01.500", "\t", "I", "\t", " ", pos, "\t", " ", "2", "\t",
      ptype, "\n">>

\* what a file on disk can be: missing, empty, a line with a single field,
\* two logs that overlap in h2, a log of a stream-end record only
DiskFiles ==
    {[exists |-> FALSE, lines |-> <<>>],
     [exists |-> TRUE, lines |-> <<>>],
     [exists |-> TRUE, lines |-> <<<<"h1", "\n">>>>],
     [exists |-> TRUE, lines |-> <<RecordLine("h1", "13"), RecordLine("h2", "30")>>],
     [exists |-> TRUE, lines |-> <<RecordLine("h2", "13"), RecordLine("h3", "30")>>],
     [exists |-> TRUE, lines |-> <<PacketLine("h9", "13", "end")>>]}

\* a loaded tuple as the record match and match_and_join work on: field 0,
\* fields 1 to 4, field 5 and the file name appended by load_hashfile
AsRec(t) == Rec(t[1][1], <<t[2], t[3], t[4], t[5]>>, t[6][1], t[7][1])

\* load_hashfile(f) on the disk d: open() of a missing file raises
LoadFile(d, f) ==
    IF ~d[f].exists THEN [tag |-> "FileNotFoundError", value |-> <<>>]
    ELSE LET r == LoadHashfile(d[f].lines, f)
         IN  IF r.tag # "return" THEN r
             ELSE [tag |-> "return", value |-> [i \in 1..Len(r.value) |-> AsRec(r.value[i])]]

\* variant: a file that fails to load is left out and the others are loaded
RECURSIVE LoadGroupSkipping(_, _, _)
LoadGroupSkipping(d, fs, acc) ==
    IF fs = <<>> THEN [tag |-> "return", value |-> acc]
    ELSE LET r == LoadFile(d, fs[1])
         IN  IF r.tag # "return" THEN LoadGroupSkipping(d, Tail(fs), acc)
             ELSE LoadGroupSkipping(d, Tail(fs), Append(acc, r.value))

\* `[load_hashfile(f) for f in files if ...]` over the names fs: the loaded
\* logs, or the first exception
RECURSIVE LoadGroup(_, _, _)
LoadGroup(d, fs, acc) ==
    IF fs = <<>> THEN [tag |-> "return", value |-> acc]
    ELSE LET r == LoadFile(d, fs[1])
         IN  IF r.tag # "return" THEN [tag |-> r.tag, value |-> <<>>]
             ELSE LoadGroup(d, Tail(fs), Append(acc, r.value))

\* variant: the output is never written
OutputNever(ls) == NoOutput

\* `if lines: with open(outname, 'wt') as f: ...`
OutputOf(ls) == IF ls # <<>> THEN [written |-> TRUE, lines |-> ls] ELSE NoOutput

VideoFiles(fs) == SelectSeq(fs, EndsWithV)
AudioFiles(fs) == SelectSeq(fs, EndsWithA)

Missing == [exists |-> FALSE, lines |-> <<>>]

InitMain ==
    /\ \E S \in SUBSET Range(NameOrder) :
          /\ Cardinality(S) <= MaxFiles
          /\ files = SelectSeq(NameOrder, LAMBDA f : f \in S)
          /\ \E d \in [S -> DiskFiles] :
                disk = [f \in Range(NameOrder) |-> IF f \in S THEN d[f] ELSE Missing]
    /\ mpc = "start"
    /\ v_hashes = <<>> /\ a_hashes = <<>> /\ v_hash = <<>> /\ a_hash = <<>>
    /\ outfile = NoOutput /\ moved = <<>>
    /\ MatchIdle /\ JoinIdle /\ LoadIdle /\ FlvIdle /\ NormIdle

\* lines 101-105: the single missing file, and common_name(files), whose
\* files[0] raises IndexError when no file is named
MainStart ==
    /\ mpc = "start"
    /\ mpc' = IF Len(files) = 1 /\ ~disk[files[1]].exists THEN "returned"
              ELSE IF files = <<>> THEN "IndexError"
              ELSE "named"
    /\ UNCHANGED <<files, disk, v_hashes, a_hashes, v_hash, a_hash, outfile, moved>>
    /\ UNCHANGED <<matchVars, joinVars, loadVars, flvVars, normVars>>

\* `v_hashes = [load_hashfile(f) for f in files if f.endswith('v.txt')]`
MainLoadV ==
    /\ mpc = "named"
    /\ \E r \in {LoadGroup(disk, VideoFiles(files), <<>>)} :
          IF r.tag = "return"
          THEN v_hashes' = r.value /\ mpc' = "loaded_v"
          ELSE mpc' = r.tag /\ UNCHANGED v_hashes
    /\ UNCHANGED <<files, disk, a_hashes, v_hash, a_hash, outfile, moved>>
    /\ UNCHANGED <<matchVars, joinVars, loadVars, flvVars, normVars>>

\* `a_hashes = [load_hashfile(f) for f in files if f.endswith('a.txt')]`
MainLoadA ==
    /\ mpc = "loaded_v"
    /\ \E r \in {LoadGroup(disk, AudioFiles(files), <<>>)} :
          IF r.tag = "return"
          THEN a_hashes' = r.value /\ mpc' = "loaded_a"
          ELSE mpc' = r.tag /\ UNCHANGED a_hashes
    /\ UNCHANGED <<files, disk, v_hashes, v_hash, a_hash, outfile, moved>>
    /\ UNCHANGED <<matchVars, joinVars, loadVars, flvVars, normVars>>

\* main calls join_hashes(hs): the call runs as JoinEmpty, JoinFirst,
\* JoinStep and JoinReturn do, with the window match has by default
CallJoinHashes(hs) ==
    /\ hashes' = hs /\ jwindow' = DefaultWindow
    /\ jlead' = <<>> /\ jidx' = 0 /\ jstate' = "start"
    /\ UNCHANGED stdout

JoinOver == jstate \notin {"idle", "start", "loop"}

\* `v_hash = join_hashes(v_hashes)`: the call
MainJoinV ==
    /\ mpc = "loaded_a"
    /\ CallJoinHashes(v_hashes)
    /\ mpc' = "join_v"
    /\ UNCHANGED <<files, disk, v_hashes, a_hashes, v_hash, a_hash, outfile, moved>>
    /\ UNCHANGED <<matchVars, loadVars, flvVars, normVars>>

\* `v_hash = join_hashes(v_hashes)`: the assignment, or the exception
MainJoinedV ==
    /\ mpc = "join_v" /\ JoinOver
    /\ IF jstate = "returned"
       THEN v_hash' = jlead /\ mpc' = "joined_v"
       ELSE mpc' = jstate /\ UNCHANGED v_hash
    /\ jstate' = "idle"
    /\ UNCHANGED <<hashes, jwindow, jlead, jidx, stdout>>
    /\ UNCHANGED <<files, disk, v_hashes, a_hashes, a_hash, outfile, moved>>
    /\ UNCHANGED <<matchVars, loadVars, flvVars, normVars>>

\* `a_hash = join_hashes(a_hashes)`: the call
MainJoinA ==
    /\ mpc = "joined_v"
    /\ CallJoinHashes(a_hashes)
    /\ mpc' = "join_a"
    /\ UNCHANGED <<files, disk, v_hashes, a_hashes, v_hash, a_hash, outfile, moved>>
    /\ UNCHANGED <<matchVars, loadVars, flvVars, normVars>>

\* `a_hash = join_hashes(a_hashes)`: the assignment, or the exception
MainJoinedA ==
    /\ mpc = "join_a" /\ JoinOver
    /\ IF jstate = "returned"
       THEN a_hash' = jlead /\ mpc' = "joined_a"
       ELSE mpc' = jstate /\ UNCHANGED a_hash
    /\ jstate' = "idle"
    /\ UNCHANGED <<hashes, jwindow, jlead, jidx, stdout>>
    /\ UNCHANGED <<files, disk, v_hashes, a_hashes, v_hash, outfile, moved>>
    /\ UNCHANGED <<matchVars, loadVars, flvVars, normVars>>

\* lines 110-115: the output is written when there is a line to write, and
\* the directory split-hashes is made
MainWrite ==
    /\ mpc = "joined_a"
    /\ outfile' = OutputOf(v_hash \o a_hash)
    /\ mpc' = "moving"
    /\ UNCHANGED <<files, disk, v_hashes, a_hashes, v_hash, a_hash, moved>>
    /\ UNCHANGED <<matchVars, joinVars, loadVars, flvVars, normVars>>

\* one turn of `for file in files: shutil.move(file, "split-hashes")`; the
\* move of a missing file raises, the last move ends main
MainMove ==
    /\ mpc = "moving"
    /\ LET file == files[Len(moved) + 1]
       IN  IF ~disk[file].exists
           THEN mpc' = "FileNotFoundError" /\ UNCHANGED moved
           ELSE /\ moved' = Append(moved, file)
                /\ mpc' = IF Len(moved) + 1 = Len(files) THEN "returned" ELSE "moving"
    /\ UNCHANGED <<files, disk, v_hashes, a_hashes, v_hash, a_hash, outfile>>
    /\ UNCHANGED <<matchVars, joinVars, loadVars, flvVars, normVars>>

NextMain ==
    \/ MainStart \/ MainLoadV \/ MainLoadA
    \/ MainJoinV \/ MainJoinedV \/ MainJoinA \/ MainJoinedA
    \/ JoinEmpty \/ JoinFirst \/ JoinStep \/ JoinReturn
    \/ MainWrite \/ MainMove

SpecMain == InitMain /\ [][NextMain]_vars

-----------------------------------------------------------------------------
(* Vocabulary of the statements about the driver (SpecMain) *)

MainOver ==
    mpc \notin {"idle", "start", "named", "loaded_v", "loaded_a", "join_v", "joined_v",
                "join_a", "joined_a", "moving"}

\* the files of the group fs that load_hashfile fails on
Failing(fs) == {i \in 1..Len(fs) : LoadFile(disk, fs[i]).tag # "return"}

\* the exception of the first file that fails: the video group is loaded first
FirstFailure ==
    LET fs == IF Failing(VideoFiles(files)) # {} THEN VideoFiles(files) ELSE AudioFiles(files)
        i  == CHOOSE i \in Failing(fs) : \A j \in Failing(fs) : i <= j
    IN  LoadFile(disk, fs[i]).tag

\* main gets as far as loading: it does not return on a single missing file
Loads == files # <<>> /\ ~(Len(files) = 1 /\ ~disk[files[1]].exists)

\* one file, which loads to at least one record
OneGoodFile(fs) ==
    /\ Len(fs) = 1
    /\ LoadFile(disk, fs[1]).tag = "return" /\ LoadFile(disk, fs[1]).value # <<>>

(* C11 as stated: when loading a log of one group fails, the failure is    *)
(* fatal for that group only and the driver still loads, joins and writes  *)
(* the other group (here: the other group is one well-formed log).         *)
C11_LoadFailureIsPerGroup ==
    /\ (MainOver /\ Loads /\ Failing(VideoFiles(files)) # {} /\ OneGoodFile(AudioFiles(files)))
          => (outfile.written /\ outfile.lines = LoadFile(disk, AudioFiles(files)[1]).value)
    /\ (MainOver /\ Loads /\ Failing(AudioFiles(files)) # {} /\ OneGoodFile(VideoFiles(files)))
          => (outfile.written /\ outfile.lines = LoadFile(disk, VideoFiles(files)[1]).value)

(* C11 as amended: when loading a log of either group fails, the exception *)
(* leaves main and is fatal for the whole run: join_hashes is called for   *)
(* neither group, no output is written and no input file is moved, also    *)
(* when every log of the other group is well-formed.                       *)
C11_LoadFailureEndsMain ==
    (Loads /\ (Failing(VideoFiles(files)) # {} \/ Failing(AudioFiles(files)) # {})) =>
        /\ jstate = "idle" /\ v_hash = <<>> /\ a_hash = <<>>
        /\ outfile = NoOutput /\ moved = <<>>
        /\ mpc \in {"start", "named", "loaded_v", FirstFailure}

C11_Witness ==
    /\ mpc \in {"IndexError", "ValueError"}
    /\ OneGoodFile(VideoFiles(files)) /\ v_hashes # <<>>
    /\ Failing(AudioFiles(files)) # {}
    /\ outfile = NoOutput

(* C15: if loading an input file or joining a group raises, no output file *)
(* has been created and no input file has been moved; input files are      *)
(* moved only after both groups have been joined and the output, if there  *)
(* is a record, has been written.                                          *)
C15_AllOrNothingBeforeOutput ==
    /\ (\/ Failing(VideoFiles(files)) # {} \/ Failing(AudioFiles(files)) # {}
        \/ mpc \in {"IndexError", "ValueError", "AssertionError"})
          => (outfile = NoOutput /\ moved = <<>>)
    /\ moved # <<>> =>
          /\ mpc \in {"moving", "returned", "FileNotFoundError"}
          /\ v_hash \o a_hash # <<>> =>
                (outfile.written /\ outfile.lines = v_hash \o a_hash)

C15_Witness ==
    /\ mpc = "IndexError" /\ Len(hashes) = 2 /\ jidx = 1
    /\ v_hash # <<>> /\ a_hashes = hashes
    /\ outfile = NoOutput /\ moved = <<>>

-----------------------------------------------------------------------------
(* FlvTag.data in full: filter_hls and filter_vheader on payloads of any   *)
(* length, bytes as numbers.                                               *)

\* b'BVCLIVETIMESTAMP'
Marker ==
    <<66, 86, 67, 76, 73, 86, 69, 84, 73, 77, 69, 83, 84, 65, 77, 80>>

\* b':BVCLIVETIMESTAMP{"author":"nginx","curr_ms":', the text of header_re
\* between its first six bytes and the thirteen digits
NginxText ==
    <<58, 66, 86, 67, 76, 73, 86, 69, 84, 73, 77, 69, 83, 84, 65, 77, 80,
      123, 34, 97, 117, 116, 104, 111, 114, 34, 58, 34, 110, 103, 105, 110,
      120, 34, 44, 34, 99, 117, 114, 114, 95, 109, 115, 34, 58>>

\* the literal tested at line 192
PcLinkProbe ==
    <<0, 0, 0, 116, 6, 5, 112, 66, 86, 67, 76, 73, 86, 69, 84, 73, 77, 69,
      83, 84, 65, 77, 80, 123, 34, 97, 117, 116, 104, 111, 114, 34, 58, 34,
      112, 99, 95, 108, 105, 110, 107, 34, 44, 34, 97, 117, 116, 104, 111,
      114, 95, 118, 101, 114, 34, 58, 34, 52, 46, 51, 56, 46, 49, 46, 52, 52,
      54, 52, 34>>

\* the literal looked up at line 193
PcLinkIndex ==
    <<0, 0, 0, 116, 6, 5, 112, 66, 86, 67, 76, 73, 86, 69, 84, 73, 77, 69,
      83, 84, 65, 77, 80>>

\* the literal whose length is taken at line 200
PcLinkHeader ==
    <<0, 0, 0, 116, 6, 5, 112, 66, 86, 67, 76, 73, 86, 69, 84, 73, 77, 69,
      83, 84, 65, 77, 80, 123, 34, 97, 117, 116, 104, 111, 114, 34, 58, 34,
      112, 99, 95, 108, 105, 110, 107, 34, 44, 34, 97, 117, 116, 104, 111,
      114, 95, 118, 101, 114, 34, 58, 34, 52, 46, 51, 56, 46, 49, 46, 52, 52,
      54, 52, 34, 44, 34, 99, 108, 111, 99, 107, 95, 109, 97, 120, 95, 101,
      114, 114, 111, 114, 95, 109, 115, 34, 58, 50, 51, 53, 44, 34, 99, 117,
      114, 114, 95, 109, 115, 34, 58, 49, 54, 55, 56, 50, 48, 49, 51, 57, 56,
      57, 55, 54, 125, 128>>

\* the literal tested at line 202
BiliProbe ==
    <<66, 73, 76, 73, 65, 86, 67, 46, 49, 46, 52, 46, 50, 32, 45, 32, 72, 46,
      50, 54, 52, 47, 65, 86, 67, 32, 99, 111, 100, 101, 99, 32, 45, 32, 67,
      111, 112, 121, 114, 105, 103, 104, 116, 32, 50, 48, 49, 57, 45, 50, 48,
      50, 49>>

\* the literal whose length is taken at line 210
BiliHeader ==
    <<0, 0, 0, 152, 6, 5, 88, 179, 225, 99, 48, 140, 60, 158, 79, 194, 57,
      129, 9, 126, 170, 165, 46, 32, 66, 73, 76, 73, 65, 86, 67, 46, 49, 46,
      52, 46, 50, 32, 45, 32, 72, 46, 50, 54, 52, 47, 65, 86, 67, 32, 99,
      111, 100, 101, 99, 32, 45, 32, 67, 111, 112, 121, 114, 105, 103, 104,
      116, 32, 50, 48, 49, 57, 45, 50, 48, 50, 49, 32, 40, 99, 41, 32, 66,
      105, 108, 105, 98, 105, 108, 105, 32, 73, 110, 99, 0, 5, 58, 66, 86,
      67, 76, 73, 86, 69, 84, 73, 77, 69, 83, 84, 65, 77, 80, 123, 34, 97,
      117, 116, 104, 111, 114, 34, 58, 34, 110, 103, 105, 110, 120, 34, 44,
      34, 99, 117, 114, 114, 95, 109, 115, 34, 58, 49, 54, 55, 57, 54, 54,
      51, 53, 49, 53, 51, 50, 51, 125, 128>>

\* a header that header_re matches
NginxHeader ==
    <<0, 0, 0, 62, 6, 5, 58, 66, 86, 67, 76, 73, 86, 69, 84, 73, 77, 69, 83,
      84, 65, 77, 80, 123, 34, 97, 117, 116, 104, 111, 114, 34, 58, 34, 110,
      103, 105, 110, 120, 34, 44, 34, 99, 117, 114, 114, 95, 109, 115, 34,
      58, 49, 54, 55, 57, 54, 54, 51, 53, 49, 53, 51, 50, 51, 125, 128>>

\* bytes.startswith(prefix)
StartsWith(bs, prefix) == Len(bs) >= Len(prefix) /\ SubSeq(bs, 1, Len(prefix)) = prefix

\* the offsets at which pat occurs in bs
Occurrences(bs, pat) ==
    {i \in 0..(Len(bs) - Len(pat)) : SubSeq(bs, i + 1, i + Len(pat)) = pat}

\* `pat in bs`
Contains(bs, pat) == Occurrences(bs, pat) # {}

\* bs.index(pat), where pat occurs
IndexOf(bs, pat) ==
    CHOOSE i \in Occurrences(bs, pat) : \A j \in Occurrences(bs, pat) : i <= j

\* thirteen digits, then b'}\x80'
StampEnd(bs) ==
    /\ Len(bs) >= 15
    /\ \A i \in 1..13 : bs[i] \in 48..57
    /\ bs[14] = 125 /\ bs[15] = 128

\* header_re.match(bs)
HeaderReMatch(bs) ==
    /\ StartsWith(bs, <<0, 0, 0, 62, 6, 5>> \o NginxText)
    /\ StampEnd(SliceFrom(bs, 6 + Len(NginxText)))

\* the regular expression of line 211 matched against bs
StampReMatch(bs) ==
    /\ StartsWith(bs, NginxText)
    /\ StampEnd(SliceFrom(bs, Len(NginxText)))

\* the loop `while pre_header:` of lines 195-199 and 205-209: "ok", or the
\* exception of a failed assert or of pre_header[3] on three bytes
RECURSIVE PreHeader(_)
PreHeader(pre) ==
    IF pre = <<>> THEN "ok"
    ELSE IF SliceTo(pre, 3) # <<0, 0, 0>> THEN "AssertionError"
    ELSE IF Len(pre) < 4 THEN "IndexError"
    ELSE IF pre[4] + 4 > Len(pre) THEN "AssertionError"
    ELSE PreHeader(SliceFrom(pre, pre[4] + 4))

Filtered(data) == [tag |-> "ok", data |-> data]
FilterRaised(exc) == [tag |-> exc, data |-> <<>>]

\* FlvTag.filter_hls; the branch for data[0] == 0x17 ends without a return
\* when data[11:15] is neither of the two lengths, and None is returned
filter_hls(data) ==
    IF StartsWith(Slice(data, 5, 10), <<0, 0, 0, 2>>)
    THEN IF data[1] = 23
         THEN IF Slice(data, 5, 11) # <<0, 0, 0, 2, 9, 240>> THEN FilterRaised("AssertionError")
              ELSE IF Slice(data, 11, 15) = <<0, 0, 0, 14>>
              THEN IF Slice(data, 29, 33) # <<0, 0, 0, 4>> THEN FilterRaised("AssertionError")
                   ELSE Filtered(Slice(data, 0, 5) \o SliceFrom(data, 37))
              ELSE IF Slice(data, 11, 15) = <<0, 0, 0, 39>>
              THEN IF Slice(data, 54, 58) # <<0, 0, 0, 4>> THEN FilterRaised("AssertionError")
                   ELSE Filtered(Slice(data, 0, 5) \o SliceFrom(data, 62))
              ELSE [tag |-> "None", data |-> <<>>]
         ELSE IF Slice(data, 5, 11) # <<0, 0, 0, 2, 9, 240>> THEN FilterRaised("AssertionError")
              ELSE Filtered(Slice(data, 0, 5) \o SliceFrom(data, 11))
    ELSE Filtered(data)

\* lines 192-201: the header of author pc_link; d is the payload without padding
PcLinkBranch(d) ==
    LET header_index == IndexOf(SliceTo(d, 390), PcLinkIndex)
        pre          == PreHeader(Slice(d, 5, header_index))
        header_end   == header_index + Len(PcLinkHeader)
    IN  IF pre # "ok" THEN FilterRaised(pre)
        ELSE Filtered(SliceTo(d, 5) \o SliceFrom(d, header_end))

\* lines 202-212: the header of the BILIAVC encoder
BiliBranch(d) ==
    IF ~Contains(SliceTo(d, 390), <<0, 0, 0, 152, 6, 5>>) THEN FilterRaised("ValueError")
    ELSE LET header_index == IndexOf(SliceTo(d, 390), <<0, 0, 0, 152, 6, 5>>)
             pre          == PreHeader(Slice(d, 5, header_index))
             header_end   == header_index + Len(BiliHeader)
         IN  IF pre # "ok" THEN FilterRaised(pre)
             ELSE IF ~StampReMatch(Slice(d, header_end - 60, header_end))
             THEN FilterRaised("AssertionError")
             ELSE Filtered(SliceTo(d, 5) \o SliceFrom(d, header_end))

\* filter_vheader with the padding test and the header tests as one chain of
\* alternatives: a payload that loses its padding keeps its header
FilterVheaderOneStep(data) ==
    IF StartsWith(Slice(data, 5, 10), <<0, 0, 0, 2, 9>>)
    THEN Filtered(SliceTo(data, 5) \o SliceFrom(data, 11))
    ELSE IF Contains(SliceTo(data, 300), Marker)
         THEN IF HeaderReMatch(Slice(data, 5, 5 + 66))
              THEN Filtered(SliceTo(data, 5) \o SliceFrom(data, 5 + 66))
              ELSE IF Contains(SliceTo(data, 300), PcLinkProbe) THEN PcLinkBranch(data)
              ELSE IF Contains(SliceTo(data, 300), BiliProbe) THEN BiliBranch(data)
              ELSE FilterRaised("NotImplementedError")
         ELSE IF SliceTo(data, 3) = <<0, 0, 0>> THEN FilterRaised("AssertionError")
         ELSE Filtered(data)

\* FlvTag.filter_vheader
filter_vheader(data) ==
    LET d == IF StartsWith(Slice(data, 5, 10), <<0, 0, 0, 2, 9>>)
             THEN SliceTo(data, 5) \o SliceFrom(data, 11)
             ELSE data
    IN  IF Contains(SliceTo(d, 300), Marker)
        THEN IF HeaderReMatch(Slice(d, 5, 5 + 66))
             THEN Filtered(SliceTo(d, 5) \o SliceFrom(d, 5 + 66))
             ELSE IF Contains(SliceTo(d, 300), PcLinkProbe) THEN PcLinkBranch(d)
             ELSE IF Contains(SliceTo(d, 300), BiliProbe) THEN BiliBranch(d)
             ELSE FilterRaised("NotImplementedError")
        ELSE IF SliceTo(d, 3) = <<0, 0, 0>> THEN FilterRaised("AssertionError")
        ELSE Filtered(d)

\* FlvTag.data with the flags args; a None that filter_hls returned makes
\* filter_vheader, or the hashing of the payload, raise TypeError
FlvTagData(raw, args) ==
    LET hls == IF args.hls_fix THEN filter_hls(raw) ELSE Filtered(raw)
    IN  IF hls.tag = "None" THEN FilterRaised("TypeError")
        ELSE IF hls.tag # "ok" THEN hls
        ELSE IF ~args.vheader_ignore THEN filter_vheader(hls.data)
        ELSE hls

-----------------------------------------------------------------------------
(* FlvTag.data applied to a payload and again to its result.  A payload is *)
(* five leading bytes, blocks that the filters know, and the bytes after.  *)

\* the padding block removed at data[5:11]
Padding == <<0, 0, 0, 2, 9, 240>>

\* the block filter_hls removes with the padding when data[11:15] is
\* 00 00 00 0e: 14 bytes, then 00 00 00 04 and 4 bytes, up to data[37]
HlsBlock ==
    <<0, 0, 0, 14>> \o [i \in 1..14 |-> 103] \o <<0, 0, 0, 4>> \o [i \in 1..4 |-> 104]

BlockNames == {"padding", "nginx", "pc_link", "bili", "hls"}

BlockBytes(b) ==
    CASE b = "padding" -> Padding
      [] b = "nginx"   -> NginxHeader
      [] b = "pc_link" -> PcLinkHeader
      [] b = "bili"    -> BiliHeader
      [] b = "hls"     -> HlsBlock

RECURSIVE Concat(_)
Concat(bss) == IF bss = <<>> THEN <<>> ELSE bss[1] \o Concat(Tail(bss))

\* key frame, inter frame, and a payload that begins with zero bytes
Prefixes == {<<23, 1, 0, 0, 0>>, <<39, 1, 0, 0, 0>>, <<0, 0, 0, 0, 0>>}

Bodies == {<<>>, <<0, 0, 0, 1, 101>>}

RawPayload(prefix, blocks, body) ==
    prefix \o Concat([i \in 1..Len(blocks) |-> BlockBytes(blocks[i])]) \o body

InitNorm ==
    /\ \E prefix \in Prefixes, blocks \in SeqsOf(BlockNames, 0, MaxBlocks), body \in Bodies :
          payload = RawPayload(prefix, blocks, body)
    /\ nargs \in [hls_fix : BOOLEAN, vheader_ignore : BOOLEAN]
    /\ norm1 = NoNorm /\ norm2 = NoNorm
    /\ MatchIdle /\ JoinIdle /\ LoadIdle /\ FlvIdle /\ MainIdle

\* tag.data of a tag with the raw payload
Normalize ==
    /\ norm1 = NoNorm
    /\ norm1' = FlvTagData(payload, nargs)
    /\ UNCHANGED <<payload, nargs, norm2>>
    /\ UNCHANGED <<matchVars, joinVars, loadVars, flvVars, mainVars>>

\* tag.data of a tag whose payload is the normalized payload
Renormalize ==
    /\ norm1.tag = "ok" /\ norm2 = NoNorm
    /\ norm2' = FlvTagData(norm1.data, nargs)
    /\ UNCHANGED <<payload, nargs, norm1>>
    /\ UNCHANGED <<matchVars, joinVars, loadVars, flvVars, mainVars>>

NextNorm == Normalize \/ Renormalize

SpecNorm == InitNorm /\ [][NextNorm]_vars

(* C12 as stated: for every raw payload on which normalization succeeds,   *)
(* normalizing the result again succeeds and returns the same bytes,       *)
(* payloads in which a removable block is followed by another included.    *)
C12_NormalizationIdempotent == norm2 # NoNorm => norm2 = norm1

\* payloads with one layer to remove: a first byte that is not zero, at most
\* one padding block, and after it at most one other block
LayeredBlocks ==
    {<<>>} \cup {<<b>> : b \in BlockNames}
           \cup {<<"padding", b>> : b \in BlockNames \ {"padding"}}

SingleLayerPayloads ==
    {RawPayload(prefix, blocks, body) :
        prefix \in {q \in Prefixes : q[1] # 0}, blocks \in LayeredBlocks, body \in Bodies}

(* C12 amended: for a payload whose first byte is not zero and that holds  *)
(* at most one padding block followed by at most one other block, if       *)
(* normalization succeeds then normalizing the result succeeds and         *)
(* returns the same bytes.                                                 *)
C12_SingleLayerIdempotent ==
    (payload \in SingleLayerPayloads /\ norm2 # NoNorm) => norm2 = norm1

\* a key frame with padding and the nginx header was normalized to its five
\* leading bytes and its body, and normalizing that again changed nothing
C12_Witness ==
    /\ payload = RawPayload(<<23, 1, 0, 0, 0>>, <<"padding", "nginx">>, <<0, 0, 0, 1, 101>>)
    /\ ~nargs.hls_fix /\ ~nargs.vheader_ignore
    /\ norm1 = Filtered(<<23, 1, 0, 0, 0, 0, 0, 0, 1, 101>>)
    /\ norm2 = norm1

=============================================================================
